---- MODULE Spec2Model ----
(***************************************************************************)
(* TinyGPS (src/TinyGPS.h, src/TinyGPS.cpp): the character-driven NMEA /   *)
(* PUBX sentence parser.  The TinyGPS object is the record gps; encode is  *)
(* the operator encode(g, c, ms, ub), one call per step of the             *)
(* specification.  The build modelled is the default one (statistics       *)
(* compiled in) on a target with 8-bit byte, 32-bit int and 32-bit long    *)
(* (the Teensy/ARM targets the Serial.printf debug code is written for).   *)
(* Characters are their ASCII codes.                                       *)
(***************************************************************************)
EXTENDS Integers, Sequences, FiniteSets, TLC

\* ------------------------------------------------------------------------
\* Machine arithmetic.  A byte is 0..255, an unsigned short 0..65535.  A
\* 32-bit word (int, long, unsigned int, unsigned long) is represented by
\* the integer of -2^31 .. 2^31 - 1 that has its bit pattern, so that
\* 0xFFFFFFFF is -1: the model checker's own integers are 32 bits wide and
\* report every overflow, so an arithmetic step of the model is either the
\* exact C result or a reported overflow, never a silently wrong value.
\* ------------------------------------------------------------------------
TwoTo8  == 16 * 16
TwoTo16 == TwoTo8 * TwoTo8
TwoTo23 == TwoTo16 * 128
TwoTo30 == TwoTo16 * (TwoTo16 \div 4)
AllOnes == 0 - 1

U8(n)  == n % TwoTo8
U16(n) == n % TwoTo16

\* x << 8 on a 32-bit word.
Shl8(x) ==
  LET low   == (x % TwoTo23) * TwoTo8
      bit23 == (x \div TwoTo23) % 2
  IN  IF bit23 = 1 THEN (low - TwoTo30) - TwoTo30 ELSE low

\* x + 1 on a 32-bit word (the millisecond clock wraps).
Inc32(x) ==
  IF x = (TwoTo30 - 1) + TwoTo30 THEN (0 - TwoTo30) - TwoTo30 ELSE x + 1

RECURSIVE BitXor(_, _)
BitXor(a, b) ==
  IF a = 0 THEN b
  ELSE IF b = 0 THEN a
  ELSE (((a % 2) + (b % 2)) % 2) + 2 * BitXor(a \div 2, b \div 2)

RECURSIVE BitOr(_, _)
BitOr(a, b) ==
  IF a = 0 THEN b
  ELSE IF b = 0 THEN a
  ELSE (IF (a % 2) + (b % 2) > 0 THEN 1 ELSE 0) + 2 * BitOr(a \div 2, b \div 2)

\* ------------------------------------------------------------------------
\* Characters
\* ------------------------------------------------------------------------
AsciiLow  == "#$%&'()*+,-./0123456789:;<=>?@ABCDEFGHIJKLMNOPQRSTUVWXYZ[\\]^_"
AsciiHigh == "abcdefghijklmnopqrstuvwxyz{|}~"

Ord(ch) ==
  IF \E i \in 1..Len(AsciiLow) : SubSeq(AsciiLow, i, i) = ch
  THEN 34 + (CHOOSE i \in 1..Len(AsciiLow) : SubSeq(AsciiLow, i, i) = ch)
  ELSE 96 + (CHOOSE i \in 1..Len(AsciiHigh) : SubSeq(AsciiHigh, i, i) = ch)

Bytes(s) == [i \in 1..Len(s) |-> Ord(SubSeq(s, i, i))]

NUL    == 0
CR     == 13
LF     == 10
COMMA  == Ord(",")
STAR   == Ord("*")
DOLLAR == Ord("$")
ZERO   == Ord("0")
NINE   == Ord("9")
MINUS  == Ord("-")
PLUS   == Ord("+")
DOT    == Ord(".")
UPPER_A == Ord("A")
UPPER_F == Ord("F")
LOWER_A == Ord("a")
LOWER_F == Ord("f")
UPPER_S == Ord("S")
UPPER_W == Ord("W")
UPPER_G == Ord("G")
UPPER_D == Ord("D")
UPPER_R == Ord("R")
SPACE  == 32

\* ------------------------------------------------------------------------
\* Constants of TinyGPS.h
\* ------------------------------------------------------------------------
GPS_INVALID_AGE        == AllOnes
GPS_INVALID_ANGLE      == 999999999
GPS_INVALID_ALTITUDE   == 999999999
GPS_INVALID_DATE       == 0
GPS_INVALID_TIME       == AllOnes
GPS_INVALID_SPEED      == 999999999
GPS_INVALID_FIX_TIME   == AllOnes
GPS_INVALID_SATELLITES == 255
GPS_INVALID_HDOP       == AllOnes

_GPS_SENTENCE_GPGGA == 0
_GPS_SENTENCE_GPRMC == 1
_GPS_SENTENCE_GNGNS == 2
_GPS_SENTENCE_GNGSA == 3
_GPS_SENTENCE_GPGSV == 4
_GPS_SENTENCE_GLGSV == 5
_GPS_SENTENCE_GPZDA == 6
_GPS_SENTENCE_PUBX  == 7
_GPS_SENTENCE_OTHER == 8

_GPRMC_TERM == Bytes("GPRMC")
_GPGGA_TERM == Bytes("GPGGA")
_GPGSA_TERM == Bytes("GPGSA")
_GNRMC_TERM == Bytes("GNRMC")
_GNGNS_TERM == Bytes("GNGNS")
_GNGSA_TERM == Bytes("GNGSA")
_GPGSV_TERM == Bytes("GPGSV")
_GLGSV_TERM == Bytes("GLGSV")
_GPZDA_TERM == Bytes("GPZDA")
_PUBX_TERM  == Bytes("PUBX")

\* sizeof(_term) and the length of tracked_sat_rec
SizeofTerm == 15
NumTracked == 24

\* ------------------------------------------------------------------------
\* Internal utilities.  A term is the array _term, a sequence of SizeofTerm
\* bytes; t[i + 1] is the C element _term[i].
\* ------------------------------------------------------------------------
gpsisdigit(c) == c >= ZERO /\ c <= NINE

\* The C library's isspace in the "C" locale.
isspace(c) == c = SPACE \/ (c >= 9 /\ c <= 13)

\* Index of the first non-digit at or after p.
RECURSIVE SkipDigits(_, _)
SkipDigits(t, p) ==
  IF gpsisdigit(t[p + 1]) THEN SkipDigits(t, p + 1) ELSE p

\* long gpsatol(const char *str), str = t + p.  The digit strings of the
\* inputs explored keep every intermediate value below 2^31, where the C
\* arithmetic (signed or unsigned) is exact.
RECURSIVE gpsatolFrom(_, _, _)
gpsatolFrom(t, p, ret) ==
  IF gpsisdigit(t[p + 1])
  THEN gpsatolFrom(t, p + 1, 10 * ret + t[p + 1] - ZERO)
  ELSE ret

gpsatol(t, p) == gpsatolFrom(t, p, 0)

\* int atoi(const char *): white space, an optional sign, digits.
RECURSIVE SkipSpace(_, _)
SkipSpace(t, p) == IF isspace(t[p + 1]) THEN SkipSpace(t, p + 1) ELSE p

atoi(t) ==
  LET p == SkipSpace(t, 0)
  IN  IF t[p + 1] = MINUS THEN 0 - gpsatol(t, p + 1)
      ELSE IF t[p + 1] = PLUS THEN gpsatol(t, p + 1)
      ELSE gpsatol(t, p)

from_hex(a) ==
  IF a >= UPPER_A /\ a <= UPPER_F THEN a - UPPER_A + 10
  ELSE IF a >= LOWER_A /\ a <= LOWER_F THEN a - LOWER_A + 10
  ELSE a - ZERO

\* Fault injection: parse_decimal that reads one decimal only.
parse_decimal_tenths(t) ==
  LET isneg == t[1] = MINUS
      p0    == IF isneg THEN 1 ELSE 0
      ret0  == 100 * gpsatol(t, p0)
      p     == SkipDigits(t, p0)
      ret   == IF t[p + 1] = DOT /\ gpsisdigit(t[p + 2])
               THEN ret0 + 10 * (t[p + 2] - ZERO)
               ELSE ret0
  IN  IF isneg THEN 0 - ret ELSE ret

\* unsigned long parse_decimal(): hundredths, from the first two decimals.
parse_decimal(t) ==
  LET isneg == t[1] = MINUS
      p0    == IF isneg THEN 1 ELSE 0
      ret0  == 100 * gpsatol(t, p0)
      p     == SkipDigits(t, p0)
      ret   == IF t[p + 1] = DOT /\ gpsisdigit(t[p + 2])
               THEN ret0 + 10 * (t[p + 2] - ZERO)
                    + (IF gpsisdigit(t[p + 3]) THEN t[p + 3] - ZERO ELSE 0)
               ELSE ret0
  IN  IF isneg THEN 0 - ret ELSE ret

\* The loop "while (gpsisdigit(*++p))" of parse_degrees; p is the index of
\* the digit examined.
RECURSIVE MinuteFraction(_, _, _, _)
MinuteFraction(t, p, mult, acc) ==
  IF gpsisdigit(t[p + 1])
  THEN MinuteFraction(t, p + 1, mult \div 10, acc + mult * (t[p + 1] - ZERO))
  ELSE acc

\* unsigned long parse_degrees(): ddmm.mmmm to millionths of a degree.
parse_degrees(t) ==
  LET left_of_decimal == gpsatol(t, 0)
      whole           == (left_of_decimal % 100) * 100000
      p               == SkipDigits(t, 0)
      hundred1000ths_of_minute ==
          IF t[p + 1] = DOT THEN MinuteFraction(t, p + 1, 10000, whole) ELSE whole
  IN  (left_of_decimal \div 100) * 1000000
      + (hundred1000ths_of_minute + 3) \div 6

\* int gpsstrcmp(str1, str2) with str1 = _term and str2 a sentence tag:
\* the character of str1 at which the comparison stops.
RECURSIVE gpsstrcmpFrom(_, _, _)
gpsstrcmpFrom(t, tag, i) ==
  IF t[i + 1] # NUL /\ i < Len(tag) /\ t[i + 1] = tag[i + 1]
  THEN gpsstrcmpFrom(t, tag, i + 1)
  ELSE t[i + 1]

gpsstrcmp(t, tag) == gpsstrcmpFrom(t, tag, 0)

\* strncpy(_constellations, _term, 5); _constellations[5] = 0
RECURSIVE CLen(_, _)
CLen(t, p) == IF t[p + 1] = NUL THEN p ELSE CLen(t, p + 1)

strncpy5(t) ==
  [i \in 1..6 |-> IF i <= 5 /\ i <= CLen(t, 0) THEN t[i] ELSE NUL]

COMBINE(sentence_type, term_number) == BitOr(sentence_type * 32, term_number)
UBX_MESSAGE(message_type) == BitOr(_GPS_SENTENCE_PUBX * 32, message_type)

\* ------------------------------------------------------------------------
\* The TinyGPS object
\* ------------------------------------------------------------------------

\* What the members the constructor leaves uninitialised hold: a byte, an
\* unsigned short and a 32-bit word of whatever the object's memory held
\* (zeroes for an object of static storage, a fill pattern otherwise).
UninitPatterns ==
  { [byte |-> 0, half |-> 0, word |-> 0],
    [byte |-> 1, half |-> TwoTo8 + 1, word |-> (TwoTo16 + 1) * (TwoTo8 + 1)] }

\* TinyGPS::TinyGPS()
TinyGPS(u) ==
  [ _time |-> GPS_INVALID_TIME,           _new_time |-> u.word,
    _date |-> GPS_INVALID_DATE,           _new_date |-> u.word,
    _latitude |-> GPS_INVALID_ANGLE,      _new_latitude |-> u.word,
    _longitude |-> GPS_INVALID_ANGLE,     _new_longitude |-> u.word,
    _altitude |-> GPS_INVALID_ALTITUDE,   _new_altitude |-> u.word,
    _speed |-> GPS_INVALID_SPEED,         _new_speed |-> u.word,
    _course |-> GPS_INVALID_ANGLE,        _new_course |-> u.word,
    _hdop |-> GPS_INVALID_HDOP,           _new_hdop |-> u.word,
    _numsats |-> GPS_INVALID_SATELLITES,  _new_numsats |-> u.half,
    _last_time_fix |-> GPS_INVALID_FIX_TIME,      _new_time_fix |-> u.word,
    _last_position_fix |-> GPS_INVALID_FIX_TIME,  _new_position_fix |-> u.word,
    _year |-> GPS_INVALID_DATE,  _month |-> GPS_INVALID_DATE,  _day |-> GPS_INVALID_DATE,
    _new_year |-> u.word,        _new_month |-> u.word,        _new_day |-> u.word,
    _last_date_fix |-> GPS_INVALID_FIX_TIME,      _new_date_fix |-> u.word,
    _parity |-> 0,
    _is_checksum_term |-> FALSE,
    _term |-> [i \in 1..SizeofTerm |-> IF i = 1 THEN NUL ELSE u.byte],
    _sentence_type |-> _GPS_SENTENCE_OTHER,
    _UBX_message_type |-> 0,
    _term_number |-> 0,
    _term_offset |-> 0,
    _gps_data_good |-> FALSE,
    _constellations |-> [i \in 1..6 |-> u.byte],
    _sat_used_count |-> u.byte,
    tracked_sat_rec |-> [i \in 1..NumTracked |-> u.word],
    _tracked_satellites_index |-> u.word,
    _sat_index |-> u.byte,
    _encoded_characters |-> 0,
    _good_sentences |-> 0,
    _failed_checksum |-> 0,
    _passed_checksum |-> u.half ]

\* The staging member each assignment "_x = _new_x" of the commit reads.
StagedFor ==
  [ _time |-> "_new_time", _date |-> "_new_date",
    _latitude |-> "_new_latitude", _longitude |-> "_new_longitude",
    _altitude |-> "_new_altitude", _speed |-> "_new_speed",
    _course |-> "_new_course", _hdop |-> "_new_hdop",
    _numsats |-> "_new_numsats",
    _last_time_fix |-> "_new_time_fix",
    _last_position_fix |-> "_new_position_fix",
    _year |-> "_new_year", _month |-> "_new_month", _day |-> "_new_day",
    _last_date_fix |-> "_new_date_fix" ]

\* Fix State: the members the accessors publish.
FixFields == DOMAIN StagedFor

\* ------------------------------------------------------------------------
\* term_complete: the checksum term (the commit)
\* ------------------------------------------------------------------------

\* Fault injection: a checksum kept in seven bits.
checksum_7bit(g) == (16 * from_hex(g._term[1]) + from_hex(g._term[2])) % 128

\* byte checksum = 16 * from_hex(_term[0]) + from_hex(_term[1])
checksum(g) == U8(16 * from_hex(g._term[1]) + from_hex(g._term[2]))

\* Fault injection: the unconditional promotion of an RMC sentence taking
\* the latitude along.
TimeDatePromoted_wide(g) ==
  (IF g._sentence_type = _GPS_SENTENCE_GPRMC
      \/ (g._sentence_type = _GPS_SENTENCE_PUBX /\ g._UBX_message_type = 4)
   THEN {"_time", "_date", "_last_time_fix", "_latitude"} ELSE {})
  \cup
  (IF g._sentence_type = _GPS_SENTENCE_GPZDA
   THEN {"_time", "_last_time_fix", "_day", "_month", "_year", "_last_date_fix"}
   ELSE {})

\* "set the time and date even if not tracking"
TimeDatePromoted(g) ==
  (IF g._sentence_type = _GPS_SENTENCE_GPRMC
      \/ (g._sentence_type = _GPS_SENTENCE_PUBX /\ g._UBX_message_type = 4)
   THEN {"_time", "_date", "_last_time_fix"} ELSE {})
  \cup
  (IF g._sentence_type = _GPS_SENTENCE_GPZDA
   THEN {"_time", "_last_time_fix", "_day", "_month", "_year", "_last_date_fix"}
   ELSE {})

\* Fault injection: a GGA commit that forgets the HDOP.
FixPromoted_no_hdop(g) ==
  IF g._gps_data_good
  THEN {"_last_time_fix", "_last_position_fix"}
       \cup
       (CASE g._sentence_type = _GPS_SENTENCE_GPRMC ->
               {"_time", "_date", "_latitude", "_longitude", "_speed", "_course"}
          [] g._sentence_type = _GPS_SENTENCE_GPGGA ->
               {"_altitude", "_time", "_latitude", "_longitude", "_numsats"}
          [] g._sentence_type = _GPS_SENTENCE_PUBX /\ g._UBX_message_type = 0 ->
               {"_time", "_latitude", "_longitude", "_speed", "_course",
                "_altitude", "_numsats", "_hdop"}
          [] OTHER -> {})
  ELSE {}

\* if (_gps_data_good) { ... switch(_sentence_type) ... }
FixPromoted(g) ==
  IF g._gps_data_good
  THEN {"_last_time_fix", "_last_position_fix"}
       \cup
       (CASE g._sentence_type = _GPS_SENTENCE_GPRMC ->
               {"_time", "_date", "_latitude", "_longitude", "_speed", "_course"}
          [] g._sentence_type = _GPS_SENTENCE_GPGGA ->
               {"_altitude", "_time", "_latitude", "_longitude", "_numsats", "_hdop"}
          [] g._sentence_type = _GPS_SENTENCE_PUBX /\ g._UBX_message_type = 0 ->
               {"_time", "_latitude", "_longitude", "_speed", "_course",
                "_altitude", "_numsats", "_hdop"}
          [] OTHER -> {})
  ELSE {}

\* The members a matching checksum assigns from staging.
Promoted(g) == TimeDatePromoted(g) \cup FixPromoted(g)

\* Fault injection: a commit that adds the staged speed to the published
\* one instead of assigning it.
Promote_adding(g, fields) ==
  [f \in DOMAIN g |->
     IF f \in fields
     THEN IF f = "_speed" /\ g[f] # GPS_INVALID_SPEED
          THEN g[f] + g[StagedFor[f]] ELSE g[StagedFor[f]]
     ELSE g[f]]

Promote(g, fields) ==
  [f \in DOMAIN g |-> IF f \in fields THEN g[StagedFor[f]] ELSE g[f]]

\* Fault injection: a commit that does not compare the checksum.
checksum_term_unchecked(g) ==
  IF g._gps_data_good
  THEN [gps |-> [Promote(g, Promoted(g)) EXCEPT !._good_sentences = U16(@ + 1)],
        ret |-> TRUE]
  ELSE [gps |-> Promote(g, Promoted(g)), ret |-> FALSE]

\* Fault injection: a commit that reports every matching checksum as a fix.
checksum_term_any_match(g) ==
  IF checksum(g) = g._parity
  THEN [gps |-> [Promote(g, Promoted(g)) EXCEPT !._good_sentences = U16(@ + 1)],
        ret |-> TRUE]
  ELSE [gps |-> [g EXCEPT !._failed_checksum = U16(@ + 1)], ret |-> FALSE]

\* if (_is_checksum_term) { ... }
checksum_term(g) ==
  IF checksum(g) = g._parity
  THEN IF g._gps_data_good
       THEN [gps |-> [Promote(g, Promoted(g)) EXCEPT !._good_sentences = U16(@ + 1)],
             ret |-> TRUE]
       ELSE [gps |-> Promote(g, Promoted(g)), ret |-> FALSE]
  ELSE [gps |-> [g EXCEPT !._failed_checksum = U16(@ + 1)], ret |-> FALSE]

\* ------------------------------------------------------------------------
\* term_complete: the first term and the PUBX message number
\* ------------------------------------------------------------------------
sentence_type_of(t) ==
  IF gpsstrcmp(t, _GPRMC_TERM) = 0 \/ gpsstrcmp(t, _GNRMC_TERM) = 0
    THEN _GPS_SENTENCE_GPRMC
  ELSE IF gpsstrcmp(t, _GPGGA_TERM) = 0 THEN _GPS_SENTENCE_GPGGA
  ELSE IF gpsstrcmp(t, _GNGNS_TERM) = 0 THEN _GPS_SENTENCE_GNGNS
  ELSE IF gpsstrcmp(t, _GNGSA_TERM) = 0 \/ gpsstrcmp(t, _GPGSA_TERM) = 0
    THEN _GPS_SENTENCE_GNGSA
  ELSE IF gpsstrcmp(t, _GPGSV_TERM) = 0 THEN _GPS_SENTENCE_GPGSV
  ELSE IF gpsstrcmp(t, _GLGSV_TERM) = 0 THEN _GPS_SENTENCE_GLGSV
  ELSE IF gpsstrcmp(t, _GPZDA_TERM) = 0 THEN _GPS_SENTENCE_GPZDA
  ELSE IF gpsstrcmp(t, _PUBX_TERM) = 0 THEN _GPS_SENTENCE_PUBX
  ELSE _GPS_SENTENCE_OTHER

\* ------------------------------------------------------------------------
\* term_complete: the switch on COMBINE(sentence_type, _term_number).  Each
\* set holds the case labels that share one body.
\* ------------------------------------------------------------------------
CaseTime ==
  { COMBINE(_GPS_SENTENCE_GPRMC, 1), COMBINE(_GPS_SENTENCE_GPGGA, 1),
    COMBINE(_GPS_SENTENCE_GNGNS, 1), COMBINE(_GPS_SENTENCE_GPZDA, 1),
    COMBINE(UBX_MESSAGE(0), 2), COMBINE(UBX_MESSAGE(4), 2) }
CaseRmcValidity == { COMBINE(_GPS_SENTENCE_GPRMC, 2) }
CaseLatitude ==
  { COMBINE(_GPS_SENTENCE_GPRMC, 3), COMBINE(_GPS_SENTENCE_GPGGA, 2),
    COMBINE(_GPS_SENTENCE_GNGNS, 2), COMBINE(UBX_MESSAGE(0), 3) }
CaseNorthSouth ==
  { COMBINE(_GPS_SENTENCE_GPRMC, 4), COMBINE(_GPS_SENTENCE_GPGGA, 3),
    COMBINE(_GPS_SENTENCE_GNGNS, 3), COMBINE(UBX_MESSAGE(0), 4) }
CaseLongitude ==
  { COMBINE(_GPS_SENTENCE_GPRMC, 5), COMBINE(_GPS_SENTENCE_GPGGA, 4),
    COMBINE(_GPS_SENTENCE_GNGNS, 4), COMBINE(UBX_MESSAGE(0), 5) }
CaseEastWest ==
  { COMBINE(_GPS_SENTENCE_GPRMC, 6), COMBINE(_GPS_SENTENCE_GPGGA, 5),
    COMBINE(_GPS_SENTENCE_GNGNS, 5), COMBINE(UBX_MESSAGE(0), 6) }
CaseConstellations == { COMBINE(_GPS_SENTENCE_GNGNS, 6) }
CaseSpeed  == { COMBINE(_GPS_SENTENCE_GPRMC, 7), COMBINE(UBX_MESSAGE(0), 11) }
CaseCourse == { COMBINE(_GPS_SENTENCE_GPRMC, 8), COMBINE(UBX_MESSAGE(0), 12) }
CaseDate   == { COMBINE(_GPS_SENTENCE_GPRMC, 9), COMBINE(UBX_MESSAGE(4), 3) }
CaseDay    == { COMBINE(_GPS_SENTENCE_GPZDA, 2) }
CaseMonth  == { COMBINE(_GPS_SENTENCE_GPZDA, 3) }
CaseYear   == { COMBINE(_GPS_SENTENCE_GPZDA, 4) }
CaseGgaFix == { COMBINE(_GPS_SENTENCE_GPGGA, 6) }
CaseNumsats ==
  { COMBINE(_GPS_SENTENCE_GPGGA, 7), COMBINE(_GPS_SENTENCE_GNGNS, 7),
    COMBINE(UBX_MESSAGE(0), 18) }
CaseHdop     == { COMBINE(_GPS_SENTENCE_GPGGA, 8), COMBINE(UBX_MESSAGE(0), 15) }
CaseAltitude == { COMBINE(_GPS_SENTENCE_GPGGA, 9), COMBINE(UBX_MESSAGE(0), 7) }
CaseNavStat  == { COMBINE(UBX_MESSAGE(0), 8) }
CaseGsaUsed  == { COMBINE(_GPS_SENTENCE_GNGSA, 3) }
CaseGsvSequence ==
  { COMBINE(_GPS_SENTENCE_GPGSV, 2), COMBINE(_GPS_SENTENCE_GLGSV, 2) }
CaseGsvSatellite ==
  { COMBINE(_GPS_SENTENCE_GPGSV, 4), COMBINE(_GPS_SENTENCE_GPGSV, 8),
    COMBINE(_GPS_SENTENCE_GPGSV, 12), COMBINE(_GPS_SENTENCE_GPGSV, 16),
    COMBINE(_GPS_SENTENCE_GLGSV, 4), COMBINE(_GPS_SENTENCE_GLGSV, 8),
    COMBINE(_GPS_SENTENCE_GLGSV, 12), COMBINE(_GPS_SENTENCE_GLGSV, 16) }
CaseGsvStrength ==
  { COMBINE(_GPS_SENTENCE_GPGSV, 7), COMBINE(_GPS_SENTENCE_GPGSV, 11),
    COMBINE(_GPS_SENTENCE_GPGSV, 15), COMBINE(_GPS_SENTENCE_GPGSV, 19),
    COMBINE(_GPS_SENTENCE_GLGSV, 7), COMBINE(_GPS_SENTENCE_GLGSV, 11),
    COMBINE(_GPS_SENTENCE_GLGSV, 15), COMBINE(_GPS_SENTENCE_GLGSV, 19) }

\* The case label the switch jumps to.
SwitchCase(key) ==
  CASE key \in CaseTime           -> "time"
    [] key \in CaseRmcValidity    -> "rmc_validity"
    [] key \in CaseLatitude       -> "latitude"
    [] key \in CaseNorthSouth     -> "north_south"
    [] key \in CaseLongitude      -> "longitude"
    [] key \in CaseEastWest       -> "east_west"
    [] key \in CaseConstellations -> "constellations"
    [] key \in CaseSpeed          -> "speed"
    [] key \in CaseCourse         -> "course"
    [] key \in CaseDate           -> "date"
    [] key \in CaseDay            -> "day"
    [] key \in CaseMonth          -> "month"
    [] key \in CaseYear           -> "year"
    [] key \in CaseGgaFix         -> "gga_fix"
    [] key \in CaseNumsats        -> "numsats"
    [] key \in CaseHdop           -> "hdop"
    [] key \in CaseAltitude       -> "altitude"
    [] key \in CaseNavStat        -> "nav_status"
    [] key \in CaseGsaUsed        -> "gsa_used"
    [] key \in CaseGsvSequence    -> "gsv_sequence"
    [] key \in CaseGsvSatellite   -> "gsv_satellite"
    [] key \in CaseGsvStrength    -> "gsv_strength"
    [] OTHER                      -> "none"

\* switch(COMBINE(sentence_type, _term_number)), sentence_type being
\* UBX_MESSAGE(_UBX_message_type) in a PUBX sentence.
SwitchKey(g) ==
  COMBINE(IF g._sentence_type = _GPS_SENTENCE_PUBX
          THEN UBX_MESSAGE(g._UBX_message_type)
          ELSE g._sentence_type,
          g._term_number)

\* The part of term_complete that handles the term just completed.
TermRule(g) ==
  IF g._is_checksum_term THEN "checksum"
  ELSE IF g._term_number = 0 THEN "sentence_type"
  ELSE IF g._sentence_type = _GPS_SENTENCE_PUBX /\ g._term_number = 1
    THEN "ubx_message"
  ELSE IF g._sentence_type # _GPS_SENTENCE_OTHER /\ g._term[1] # NUL
    THEN SwitchCase(SwitchKey(g))
  ELSE "none"

\* Fault injection: a sequence start that clears the whole table.
gsv_sequence_clears_all(g) ==
  LET msgId == U8(atoi(g._term) - 1)
  IN  [g EXCEPT !.tracked_sat_rec =
                   IF msgId # 0 THEN @ ELSE [x \in 1..NumTracked |-> 0],
                !._sat_index = IF g._sentence_type = _GPS_SENTENCE_GLGSV
                               THEN U8(msgId * 4 + 12)
                               ELSE U8(msgId * 4)]

\* case GSV sequence: uint8_t msgId = atoi(_term) - 1; the reset of the
\* constellation's twelve records; _sat_index.
gsv_sequence(g) ==
  LET msgId == U8(atoi(g._term) - 1)
      reset ==
        IF msgId # 0 THEN g.tracked_sat_rec
        ELSE IF g._sentence_type = _GPS_SENTENCE_GPGSV
          THEN [x \in 1..NumTracked |-> IF x - 1 < 12 THEN 0 ELSE g.tracked_sat_rec[x]]
        ELSE [x \in 1..NumTracked |-> IF x - 1 >= 12 THEN 0 ELSE g.tracked_sat_rec[x]]
  IN  [g EXCEPT !.tracked_sat_rec = reset,
                !._sat_index = IF g._sentence_type = _GPS_SENTENCE_GLGSV
                               THEN U8(msgId * 4 + 12)
                               ELSE U8(msgId * 4)]

\* The element of tracked_sat_rec a strength term stores to.
StrengthIndex(g) == g._sat_index + (g._term_number - 7) \div 4

\* _tracked_satellites_index << 8 | stren << 1, or 0 for no signal.
StrengthRecord(g) ==
  LET stren == U8(atoi(g._term))
      hi    == Shl8(g._tracked_satellites_index)
  IN  IF stren = 0 THEN 0
      ELSE (hi - (hi % (2 * TwoTo8))) + BitOr(hi % (2 * TwoTo8), stren * 2)

\* A store to tracked_sat_rec[i] with i >= 24 lands outside the array.  ub
\* is what the build makes of it: "adjacent" is the store landing in the
\* members declared after the array (int, then uint8_t and padding, then
\* the statistics, little-endian); "miss" is the store landing in memory
\* that holds no member of the object.
StoreOutside(g, i, v, ub) ==
  IF ub = "miss" THEN g
  ELSE CASE i = 24 -> [g EXCEPT !._tracked_satellites_index = v]
         [] i = 25 -> [g EXCEPT !._sat_index = U8(v)]
         [] i = 26 -> [g EXCEPT !._encoded_characters = v]
         [] i = 27 -> [g EXCEPT !._good_sentences = U16(v),
                                !._failed_checksum = U16(v \div TwoTo16)]
         [] i = 28 -> [g EXCEPT !._passed_checksum = U16(v)]
         [] OTHER  -> g

gsv_strength(g, ub) ==
  LET i == StrengthIndex(g)
      v == StrengthRecord(g)
  IN  IF i < NumTracked
      THEN [g EXCEPT !.tracked_sat_rec[i + 1] = v]
      ELSE StoreOutside(g, i, v, ub)

\* The body of the case the switch selects; ms is what millis() returns.
decode(g, rule, ms, ub) ==
  CASE rule = "time" ->
         [g EXCEPT !._new_time = parse_decimal(g._term), !._new_time_fix = ms]
    [] rule = "rmc_validity" ->
         [g EXCEPT !._gps_data_good = (g._term[1] = UPPER_A)]
    [] rule = "latitude" ->
         [g EXCEPT !._new_latitude = parse_degrees(g._term),
                   !._new_position_fix = ms]
    [] rule = "north_south" ->
         IF g._term[1] = UPPER_S
         THEN [g EXCEPT !._new_latitude = 0 - g._new_latitude] ELSE g
    [] rule = "longitude" ->
         [g EXCEPT !._new_longitude = parse_degrees(g._term)]
    [] rule = "east_west" ->
         IF g._term[1] = UPPER_W
         THEN [g EXCEPT !._new_longitude = 0 - g._new_longitude] ELSE g
    [] rule = "constellations" ->
         [g EXCEPT !._constellations = strncpy5(g._term)]
    [] rule = "speed"    -> [g EXCEPT !._new_speed = parse_decimal(g._term)]
    [] rule = "course"   -> [g EXCEPT !._new_course = parse_decimal(g._term)]
    [] rule = "date"     -> [g EXCEPT !._new_date = gpsatol(g._term, 0)]
    [] rule = "day"      ->
         [g EXCEPT !._new_day = gpsatol(g._term, 0), !._new_date_fix = ms]
    [] rule = "month"    ->
         [g EXCEPT !._new_month = gpsatol(g._term, 0), !._new_date_fix = ms]
    [] rule = "year"     ->
         [g EXCEPT !._new_year = gpsatol(g._term, 0), !._new_date_fix = ms]
    [] rule = "gga_fix"  -> [g EXCEPT !._gps_data_good = (g._term[1] > ZERO)]
    [] rule = "numsats"  -> [g EXCEPT !._new_numsats = U8(atoi(g._term))]
    [] rule = "hdop"     -> [g EXCEPT !._new_hdop = parse_decimal(g._term)]
    [] rule = "altitude" -> [g EXCEPT !._new_altitude = parse_decimal(g._term)]
    [] rule = "nav_status" ->
         [g EXCEPT !._gps_data_good =
             (g._term[1] = UPPER_G
              \/ (g._term[1] = UPPER_D /\ g._term[2] # UPPER_R))]
    [] rule = "gsv_sequence"  -> gsv_sequence(g)
    [] rule = "gsv_satellite" ->
         [g EXCEPT !._tracked_satellites_index = atoi(g._term)]
    [] rule = "gsv_strength"  -> gsv_strength(g, ub)
    [] OTHER -> g

\* Fault injection: a dispatcher that publishes the time it decodes.
term_complete_direct(g, ms, ub) ==
  LET rule == TermRule(g)
  IN  CASE rule = "checksum" -> checksum_term(g)
        [] rule = "sentence_type" ->
             [gps |-> [g EXCEPT !._sentence_type = sentence_type_of(g._term)],
              ret |-> FALSE]
        [] rule = "ubx_message" ->
             [gps |-> [g EXCEPT !._UBX_message_type = gpsatol(g._term, 0)],
              ret |-> FALSE]
        [] OTHER ->
             [gps |-> [decode(g, rule, ms, ub) EXCEPT
                         !._time = decode(g, rule, ms, ub)._new_time],
              ret |-> FALSE]

\* bool TinyGPS::term_complete(): the object after the call and the value
\* returned.
term_complete(g, ms, ub) ==
  LET rule == TermRule(g)
  IN  CASE rule = "checksum" -> checksum_term(g)
        [] rule = "sentence_type" ->
             [gps |-> [g EXCEPT !._sentence_type = sentence_type_of(g._term)],
              ret |-> FALSE]
        [] rule = "ubx_message" ->
             [gps |-> [g EXCEPT !._UBX_message_type = gpsatol(g._term, 0)],
              ret |-> FALSE]
        [] OTHER -> [gps |-> decode(g, rule, ms, ub), ret |-> FALSE]

\* ------------------------------------------------------------------------
\* bool TinyGPS::encode(char c)
\* ------------------------------------------------------------------------
IsTerminator(c) == c \in {COMMA, CR, LF, STAR}

\* The object as term_complete finds it: the comma folded into the parity,
\* the term closed by a NUL.
Closed(g, c) ==
  [g EXCEPT !._parity = IF c = COMMA THEN BitXor(@, c) ELSE @,
            !._term[g._term_offset + 1] = NUL]

\* Fault injection: a character dropped from the full buffer is dropped
\* from the parity as well.
encode_drops_parity(g0, c, ms, ub) ==
  LET g == [g0 EXCEPT !._encoded_characters = Inc32(@)]
  IN  IF IsTerminator(c)
      THEN LET done == IF g._term_offset < SizeofTerm
                       THEN term_complete(Closed(g, c), ms, ub)
                       ELSE [gps |-> [g EXCEPT !._parity =
                                        IF c = COMMA THEN BitXor(@, c) ELSE @],
                             ret |-> FALSE]
           IN  [gps |-> [done.gps EXCEPT !._term_number = U8(@ + 1),
                                         !._term_offset = 0,
                                         !._is_checksum_term = (c = STAR)],
                ret |-> done.ret]
      ELSE IF c = DOLLAR
      THEN [gps |-> [g EXCEPT !._term_number = 0,
                              !._term_offset = 0,
                              !._parity = 0,
                              !._sentence_type = _GPS_SENTENCE_OTHER,
                              !._is_checksum_term = FALSE,
                              !._gps_data_good = FALSE],
            ret |-> FALSE]
      ELSE [gps |-> [g EXCEPT
                       !._term = IF g._term_offset < SizeofTerm - 1
                                 THEN [@ EXCEPT ![g._term_offset + 1] = c] ELSE @,
                       !._term_offset = IF g._term_offset < SizeofTerm - 1
                                        THEN @ + 1 ELSE @,
                       !._parity = IF ~g._is_checksum_term
                                      /\ g._term_offset < SizeofTerm - 1
                                   THEN BitXor(@, c) ELSE @],
            ret |-> FALSE]

encode_dollar_keeps_flag(g0, c, ms, ub) ==
  LET g == [g0 EXCEPT !._encoded_characters = Inc32(@)]
  IN  IF IsTerminator(c)
      THEN LET done == IF g._term_offset < SizeofTerm
                       THEN term_complete(Closed(g, c), ms, ub)
                       ELSE [gps |-> [g EXCEPT !._parity =
                                        IF c = COMMA THEN BitXor(@, c) ELSE @],
                             ret |-> FALSE]
           IN  [gps |-> [done.gps EXCEPT !._term_number = U8(@ + 1),
                                         !._term_offset = 0,
                                         !._is_checksum_term = (c = STAR)],
                ret |-> done.ret]
      ELSE IF c = DOLLAR
      THEN [gps |-> [g EXCEPT !._term_number = 0,
                              !._term_offset = 0,
                              !._parity = 0,
                              !._sentence_type = _GPS_SENTENCE_OTHER,
                              !._is_checksum_term = FALSE],
            ret |-> FALSE]
      ELSE [gps |-> [g EXCEPT
                       !._term = IF g._term_offset < SizeofTerm - 1
                                 THEN [@ EXCEPT ![g._term_offset + 1] = c] ELSE @,
                       !._term_offset = IF g._term_offset < SizeofTerm - 1
                                        THEN @ + 1 ELSE @,
                       !._parity = IF ~g._is_checksum_term
                                   THEN BitXor(@, c) ELSE @],
            ret |-> FALSE]

encode(g0, c, ms, ub) ==
  LET g == [g0 EXCEPT !._encoded_characters = Inc32(@)]
  IN  IF IsTerminator(c)
      THEN LET done == IF g._term_offset < SizeofTerm
                       THEN term_complete(Closed(g, c), ms, ub)
                       ELSE [gps |-> [g EXCEPT !._parity =
                                        IF c = COMMA THEN BitXor(@, c) ELSE @],
                             ret |-> FALSE]
           IN  [gps |-> [done.gps EXCEPT !._term_number = U8(@ + 1),
                                         !._term_offset = 0,
                                         !._is_checksum_term = (c = STAR)],
                ret |-> done.ret]
      ELSE IF c = DOLLAR
      THEN [gps |-> [g EXCEPT !._term_number = 0,
                              !._term_offset = 0,
                              !._parity = 0,
                              !._sentence_type = _GPS_SENTENCE_OTHER,
                              !._is_checksum_term = FALSE,
                              !._gps_data_good = FALSE],
            ret |-> FALSE]
      ELSE [gps |-> [g EXCEPT
                       !._term = IF g._term_offset < SizeofTerm - 1
                                 THEN [@ EXCEPT ![g._term_offset + 1] = c] ELSE @,
                       !._term_offset = IF g._term_offset < SizeofTerm - 1
                                        THEN @ + 1 ELSE @,
                       !._parity = IF ~g._is_checksum_term
                                   THEN BitXor(@, c) ELSE @],
            ret |-> FALSE]

\* ------------------------------------------------------------------------
\* The byte source: the receiver's sentences, as the serial line delivers
\* them to encode(char c)
\* ------------------------------------------------------------------------
\* The exclusive-or of the bytes lo..hi of a sequence.
RECURSIVE ParityBetween(_, _, _)
ParityBetween(bytes, lo, hi) ==
  IF lo > hi THEN 0
  ELSE IF lo = hi THEN bytes[lo]
  ELSE LET mid == (lo + hi) \div 2
       IN  BitXor(ParityBetween(bytes, lo, mid), ParityBetween(bytes, mid + 1, hi))

ParityOf(bytes) == ParityBetween(bytes, 1, Len(bytes))

HexDigit(n) == IF n < 10 THEN ZERO + n ELSE UPPER_A + (n - 10)
LowerHexDigit(n) == IF n < 10 THEN ZERO + n ELSE LOWER_A + (n - 10)

\* The two upper-case hexadecimal digits of a byte.
Hex2(n) == <<HexDigit(n \div 16), HexDigit(n % 16)>>

\* "$" body "*" hh CR LF: a line with the two checksum characters given.
Framed(kind, body, hh) ==
  [kind |-> kind, body |-> body, hh |-> hh, parity |-> ParityOf(body),
   bytes |-> <<DOLLAR>> \o body \o <<STAR>> \o hh \o <<CR, LF>>]

\* A sentence as a receiver sends it: the checksum is the parity of the
\* body, the line ends with CR LF.
Sentence(body) == Framed("sentence", Bytes(body), Hex2(ParityOf(Bytes(body))))

\* A line exactly as written, checksum characters included.
Literal(body, hh) == Framed("literal", Bytes(body), Bytes(hh))

\* The same with the hexadecimal digits in lower case.
LowerSentence(body) ==
  LET n == ParityOf(Bytes(body))
  IN  Framed("lower", Bytes(body),
             <<LowerHexDigit(n \div 16), LowerHexDigit(n % 16)>>)

\* The sentence with a transmission error in the body: the checksum sent is
\* that of a body that differed in one bit.
Damaged(body) ==
  Framed("damaged", Bytes(body), Hex2(BitXor(ParityOf(Bytes(body)), 1)))

\* The sentence with checksum character number which (1 or 2) replaced by
\* the character ch.
Corrupted(body, which, ch) ==
  LET hh == Hex2(ParityOf(Bytes(body)))
  IN  Framed("corrupted", Bytes(body), [hh EXCEPT ![which] = Ord(ch)])

\* A sentence cut off before its checksum marker.
CutOff(body) ==
  [kind |-> "cutoff", body |-> Bytes(body), hh |-> <<>>,
   parity |-> ParityOf(Bytes(body)),
   bytes |-> <<DOLLAR>> \o Bytes(body) \o <<COMMA>>]

\* The first characters of a sentence, the rest never arriving.
Partial(text) ==
  [kind |-> "partial", body |-> Bytes(text), hh |-> <<>>,
   parity |-> ParityOf(Bytes(text)),
   bytes |-> <<DOLLAR>> \o Bytes(text)]

\* A sentence whose checksum field is closed by a comma instead of the line
\* terminator.
CommaClosed(body) ==
  Framed("comma_closed", Bytes(body),
         Hex2(ParityOf(Bytes(body))) \o <<COMMA>>)

\* A sentence whose checksum group is sent twice: "$" body "*hh*hh" CR LF.
Repeated(body) ==
  LET hh == Hex2(ParityOf(Bytes(body)))
  IN  Framed("repeated", Bytes(body), hh \o <<STAR>> \o hh)

\* A sentence of more fields than the 8-bit field counter can number: tag,
\* then empty fields up to number 255, then the fields of rest.
ManyFields(tag, rest) ==
  LET body == Bytes(tag) \o [i \in 1..TwoTo8 |-> COMMA] \o Bytes(rest)
  IN  Framed("sentence", body, Hex2(ParityOf(body)))

RmcKnown == "GPRMC,045103.000,A,3014.1984,N,09749.2872,W,0.67,161.46,030913,,,A"
GgaKnown == "GPGGA,045104.000,3014.1985,N,09749.2873,W,1,09,1.0,206.9,M,-26.3,M,,0000"
RmcSouth == "GNRMC,101112,A,4807.038,S,01131.000,W,1.5,2.5,010203"
RmcVoid  == "GPRMC,131415,V,5000.000,N,00100.000,E,3,4,040506"
RmcEmpty == "GPRMC,,A,,S,,W"
GgaNoFix == "GPGGA,161718,5100.000,N,00200.000,E,0,05,2.0,10.0"
Pubx00   == "PUBX,00,081350.00,4717.1132,N,00833.9151,E,546.58,G3,2.1,2.0,0.007,77.52,0.007,,0.92,1.19,0.77,9,0,0"
Pubx04   == "PUBX,04,073731.00,091202,113851.00,1196,15D,1930035,-2660.664,43"
Zda      == "GPZDA,160012.71,11,03,2004,-1,00"
Gns      == "GNGNS,014035.00,4332.6926,S,17235.4854,E,RR,13,0.9,25.6,11.2,,"
GpGsv    == "GPGSV,3,1,11,03,03,111,40,04,15,270,00,06,01,010,35,13,06,292,22"
GlGsv    == "GLGSV,2,1,05,65,20,100,30,66,30,200,00"
Gsa      == "GPGSA,A,3,04,05,,09,12,,,24,,,,,2.5,1.3,2.1"
Vtg      == "GPVTG,054.7,T,034.4,M,005.5,N,010.2,K"
Xxx      == "GPXXX,212223,A,1234.5678,S,01234.5678,W,9,9,090909"
ShortTag == "GP,232425,A,0630.000,S,00730.000,W,7,8,070809"
GpGsvFar == "GPGSV,9,7,11,03,03,111,40"

\* The two known-good lines of the documentation, as printed, and the GGA
\* line with the checksum of its body.
KnownRmcLine == Literal(RmcKnown, "7C")
KnownGgaLine == Literal(GgaKnown, "6E")
KnownGgaLine6B == Literal(GgaKnown, "6B")

\* The lines the receiver can send.
Bursts ==
  << KnownRmcLine, KnownGgaLine, KnownGgaLine6B,
     Sentence(RmcSouth), Sentence(RmcVoid), Sentence(RmcEmpty),
     Sentence(GgaNoFix), Sentence(Pubx00), Sentence(Pubx04), Sentence(Zda),
     Sentence(Gns), Sentence(GpGsv), Sentence(GlGsv), Sentence(Gsa),
     Sentence(Vtg), Sentence(Xxx), Sentence(ShortTag), Sentence(GpGsvFar),
     ManyFields("GPXXX", "GPRMC,242526,A,0830.000,N"),
     Damaged(RmcSouth), Damaged(GgaKnown), Damaged(Pubx00), Damaged(Gns),
     Damaged(GpGsv), Damaged(GlGsv),
     CutOff(RmcVoid), CutOff(Gns), CutOff(GlGsv),
     LowerSentence(RmcSouth),
     Corrupted(RmcKnown, 2, "c"), Corrupted(RmcKnown, 2, "<"),
     Corrupted(RmcKnown, 2, "D"), Corrupted(RmcKnown, 2, "0"),
     Corrupted(RmcKnown, 1, "G"), Corrupted(RmcKnown, 1, "F"),
     Corrupted(RmcKnown, 1, "8"),
     Partial("GNRMC,1,A*0"),
     Sentence("GPGSV,4,4,13,09,03,111,40"),
     Sentence("PUBX,32,101112.00,4717.113,N,00833.915,E,5.5,G3"),
     Sentence("PUBX,03,11,23,-,,,45,010"),
     Sentence(",091011,A,0730.000,S"),
     CommaClosed("GPRMC,1,A"), Repeated("GPRMC,1,A"),
     Sentence("GPRMC,1,A,,,,,,,,ABCDEFGHIJKLMNOPQ"),
     Sentence("GPGGA,,,,,,,,,,,,,,,,,,,,,,,,,,,,,,,,,252627,A"),
     Sentence("GPGGA,1,,,,,A") >>

\* ------------------------------------------------------------------------
\* The accessors' fix ages
\* ------------------------------------------------------------------------

\* a - b and a < b on unsigned 32-bit words (a word above 2^31 - 1 is
\* written as the negative number with the same bits).
MaxInt == (TwoTo30 - 1) + TwoTo30

Sub32(a, b) ==
  IF (a >= 0) = (b >= 0) THEN a - b
  ELSE IF a >= 0
    THEN IF a <= MaxInt + b THEN a - b
         ELSE ((a - MaxInt) + (0 - (b + MaxInt))) - 2
    ELSE IF (a + MaxInt) + 1 >= b THEN a - b
         ELSE ((a + MaxInt) + (MaxInt - b)) + 2

ULess(a, b) == IF (a >= 0) = (b >= 0) THEN a < b ELSE a >= 0

get_position_age_no_sentinel(g, ms) == Sub32(ms, g._last_position_fix)

get_position_age_reversed(g, ms) ==
  IF g._last_position_fix = GPS_INVALID_FIX_TIME THEN GPS_INVALID_AGE
  ELSE Sub32(g._last_position_fix, ms)

\* The fix_age of get_position, read when millis() returns ms.
get_position_age(g, ms) ==
  IF g._last_position_fix = GPS_INVALID_FIX_TIME THEN GPS_INVALID_AGE
  ELSE Sub32(ms, g._last_position_fix)

\* The age of get_datetime(date, time, age).
get_datetime_age(g, ms) ==
  IF g._last_time_fix = GPS_INVALID_FIX_TIME THEN GPS_INVALID_AGE
  ELSE Sub32(ms, g._last_time_fix)

\* The age of get_datetime(year, month, day, hour, ...).
get_datetime_ymd_age(g, ms) ==
  IF g._last_date_fix = GPS_INVALID_FIX_TIME THEN GPS_INVALID_AGE
  ELSE Sub32(ms, g._last_date_fix)

\* ------------------------------------------------------------------------
\* The program: a TinyGPS object fed the characters of the serial line
\* ------------------------------------------------------------------------
MaxBursts == 2
MaxClock  == 2

\* The lines sent after the first two.
Followers == {6}

Menu(k) == IF k <= 2 THEN 1..Len(Bursts) ELSE Followers

VARIABLES
  gps,     \* the TinyGPS object
  clock,   \* what millis() returns
  inbuf,   \* the characters of the current line not yet passed to encode
  fed,     \* the lines received so far, as indices into Bursts
  log,     \* what the accessors published when each line began to arrive
  ret,     \* the value the last encode call returned
  trues,   \* the number of encode calls that returned true
  origin,  \* where the value in each staging and Fix State member came from
  twin     \* a parser constructed when the current line began, given the
           \* same characters: its object and the value of its last call

vars == <<gps, clock, inbuf, fed, log, ret, trues, origin, twin>>

\* Fix State, as the accessors publish it.
FixOf(g) == [f \in FixFields |-> g[f]]

StagingFields == {StagedFor[f] : f \in FixFields}

\* The staging members each case of the switch assigns.
Writes(rule) ==
  CASE rule = "time"      -> {"_new_time", "_new_time_fix"}
    [] rule = "latitude"  -> {"_new_latitude", "_new_position_fix"}
    [] rule = "longitude" -> {"_new_longitude"}
    [] rule = "speed"     -> {"_new_speed"}
    [] rule = "course"    -> {"_new_course"}
    [] rule = "date"      -> {"_new_date"}
    [] rule = "day"       -> {"_new_day", "_new_date_fix"}
    [] rule = "month"     -> {"_new_month", "_new_date_fix"}
    [] rule = "year"      -> {"_new_year", "_new_date_fix"}
    [] rule = "numsats"   -> {"_new_numsats"}
    [] rule = "hdop"      -> {"_new_hdop"}
    [] rule = "altitude"  -> {"_new_altitude"}
    [] OTHER              -> {}

\* The origin of every member after encode(c) on object g: a staging member
\* is "uninit" until a term is decoded into it, "current" while the sentence
\* that wrote it is in progress, then "passed" or "failed" by the outcome of
\* that sentence's checksum comparison, "abandoned" if a '$' came first; a
\* Fix State member is "sentinel" until the commit copies a staging member
\* with its origin into it.
Retag(stage, to) == [f \in DOMAIN stage |-> IF stage[f] = "current" THEN to ELSE stage[f]]

OriginAfter(o, g, c) ==
  IF c = DOLLAR THEN [o EXCEPT !.stage = Retag(@, "abandoned")]
  ELSE IF ~IsTerminator(c) THEN o
  ELSE LET h    == Closed(g, c)
           rule == TermRule(h)
       IN  IF rule = "checksum"
           THEN IF checksum(h) = h._parity
                THEN LET s == Retag(o.stage, "passed")
                     IN  [stage |-> s,
                          fix |-> [f \in FixFields |->
                                     IF f \in Promoted(h) THEN s[StagedFor[f]]
                                     ELSE o.fix[f]]]
                ELSE [o EXCEPT !.stage = Retag(@, "failed")]
           ELSE [o EXCEPT !.stage =
                   [f \in DOMAIN @ |-> IF f \in Writes(rule) THEN "current" ELSE @[f]]]

\* What a caller can observe through the accessors.
Observed ==
  [fix |-> FixOf(gps), sats |-> gps.tracked_sat_rec,
   cons |-> gps._constellations, trues |-> trues]

\* A second TinyGPS object, of static storage, on which no encode call has
\* been made, and the value of the last call made on it.
NewTwin ==
  [gps |-> TinyGPS(CHOOSE u \in UninitPatterns : u.byte = 0), ret |-> FALSE]

Init ==
  /\ \E u \in UninitPatterns : gps = TinyGPS(u)
  /\ twin = NewTwin
  /\ clock = 0
  /\ inbuf = <<>>
  /\ fed = <<>>
  /\ log = <<>>
  /\ ret = FALSE
  /\ trues = 0
  /\ origin = [stage |-> [f \in StagingFields |-> "uninit"],
               fix   |-> [f \in FixFields |-> "sentinel"]]

\* A line arrives, in the millisecond of the last one or two milliseconds
\* later.
Receive(b, ms) ==
  /\ inbuf = <<>>
  /\ Len(fed) < MaxBursts
  /\ b \in Menu(Len(fed) + 1)
  /\ ms \in {clock, clock + 2}
  /\ clock' = ms
  /\ inbuf' = Bursts[b].bytes
  /\ fed' = Append(fed, b)
  /\ log' = Append(log, Observed)
  /\ twin' = NewTwin
  /\ UNCHANGED <<gps, ret, trues, origin>>

\* Whether encode(c) on object g stores outside tracked_sat_rec.
StoresOutside(g, c) ==
  /\ IsTerminator(c)
  /\ TermRule(Closed(g, c)) = "gsv_strength"
  /\ StrengthIndex(Closed(g, c)) >= NumTracked

\* The caller passes the next character to encode.
Encode(ub, ubt) ==
  /\ inbuf # <<>>
  /\ ub = "adjacent" => StoresOutside(gps, Head(inbuf))
  /\ ubt = "adjacent" => StoresOutside(twin.gps, Head(inbuf))
  /\ twin' = encode(twin.gps, Head(inbuf), clock, ubt)
  /\ LET c == Head(inbuf)
         r == encode(gps, c, clock, ub)
     IN  /\ gps' = r.gps
         /\ ret' = r.ret
         /\ trues' = IF r.ret THEN trues + 1 ELSE trues
         /\ origin' = OriginAfter(origin, gps, c)
  /\ inbuf' = Tail(inbuf)
  /\ UNCHANGED <<clock, fed, log>>

Next ==
  \/ \E b \in 1..Len(Bursts), ms \in 0..MaxClock : Receive(b, ms)
  \/ \E ub, ubt \in {"miss", "adjacent"} : Encode(ub, ubt)

Spec == Init /\ [][Next]_vars

\* ------------------------------------------------------------------------
\* Vocabulary of the properties
\* ------------------------------------------------------------------------

\* The line being received (or just received) and what the accessors
\* published when it began to arrive.
Last   == Bursts[fed[Len(fed)]]
Before == log[Len(log)]

\* The value of the two checksum characters a line carries, as a byte.
SentValue(b) == U8(16 * from_hex(b.hh[1]) + from_hex(b.hh[2]))

\* The line carries a checksum field whose value is not the parity of its
\* body.
Mismatched(b) == b.hh # <<>> /\ SentValue(b) # b.parity

\* A step that is one encode call.
EncodeStep == inbuf # <<>> /\ inbuf' = Tail(inbuf)

ValueFields ==
  {"_time", "_date", "_latitude", "_longitude", "_altitude", "_speed",
   "_course", "_hdop", "_numsats"}
Timestamps == {"_last_time_fix", "_last_position_fix", "_last_date_fix"}
ClockFields ==
  {"_time", "_date", "_day", "_month", "_year", "_last_time_fix", "_last_date_fix"}

\* The fields of a sentence body: the positions of its commas, the number
\* of fields and the text of field k (from 0).
CommasOf(body) == {i \in 1..Len(body) : body[i] = COMMA}
NumFields(body) == Cardinality(CommasOf(body)) + 1
CommaNo(body, k) ==
  IF k = 0 THEN 0
  ELSE IF k > Cardinality(CommasOf(body)) THEN Len(body) + 1
  ELSE CHOOSE i \in CommasOf(body) :
         Cardinality({j \in CommasOf(body) : j < i}) = k - 1
Field(body, k) == SubSeq(body, CommaNo(body, k) + 1, CommaNo(body, k + 1) - 1)

\* A field as the term buffer holds it when it is closed.
AsTerm(f) == [i \in 1..SizeofTerm |-> IF i <= Len(f) THEN f[i] ELSE NUL]

Tags ==
  {_GPRMC_TERM, _GNRMC_TERM, _GPGGA_TERM, _GNGNS_TERM, _GNGSA_TERM,
   _GPGSA_TERM, _GPGSV_TERM, _GLGSV_TERM, _GPZDA_TERM, _PUBX_TERM}

\* The first field of the line is none of the recognized tags.
Unrecognized(b) == Field(b.body, 0) \notin Tags

\* The case the switch selects for field k of a body.
RuleOfField(body, k) ==
  LET type == sentence_type_of(AsTerm(Field(body, 0)))
  IN  SwitchCase(COMBINE(IF type = _GPS_SENTENCE_PUBX
                         THEN UBX_MESSAGE(gpsatol(AsTerm(Field(body, 1)), 0))
                         ELSE type, k))

\* A complete line of fewer than 32 fields that, when its checksum is
\* right, carries a non-empty value in every field its type decodes into
\* staging.
Populated(b) ==
  /\ b.hh # <<>>
  /\ NumFields(b.body) < 32
  /\ Mismatched(b) \/
       \A k \in 1..31 :
         Writes(RuleOfField(b.body, k)) # {} =>
           k < NumFields(b.body) /\ Field(b.body, k) # <<>>

\* ------------------------------------------------------------------------
\* Properties
\* ------------------------------------------------------------------------

\* C1: a line from '$' through the terminator closing its checksum field,
\* whose checksum value differs from the parity of its body, leaves every
\* Fix State field as it was before the line, and no encode call of the
\* line returns true.
ChecksumFailureLeavesFix ==
  (fed # <<>> /\ Mismatched(Last)) =>
    (FixOf(gps) = Before.fix /\ trues = Before.trues)

\* A line with a failing checksum has been ingested after a fix was
\* published.
ChecksumFailureSeen ==
  /\ Len(fed) = 2 /\ inbuf = <<>> /\ Mismatched(Last)
  /\ Before.trues = 1 /\ gps._failed_checksum = 1

\* C2 as stated: every encode call that returns false leaves all Fix State
\* fields unchanged.
FalseReturnLeavesFix ==
  [][(EncodeStep /\ ~ret') => FixOf(gps') = FixOf(gps)]_vars

\* C2 amended: an encode call that returns false leaves latitude, longitude,
\* altitude, speed, course, HDOP, satellite count and the last-position
\* timestamp unchanged, and changes time, date, day/month/year or the
\* last-time and last-date timestamps only when it closes a matching
\* checksum field of an RMC, PUBX-04 or ZDA sentence whose data-good flag is
\* clear.
FalseReturnLeavesPosition ==
  [][(EncodeStep /\ ~ret') =>
       /\ \A f \in FixFields \ ClockFields : gps'[f] = gps[f]
       /\ FixOf(gps') # FixOf(gps) =>
            /\ IsTerminator(Head(inbuf))
            /\ gps._is_checksum_term
            /\ ~gps._gps_data_good
            /\ checksum(gps') = gps'._parity
            /\ \/ gps._sentence_type \in {_GPS_SENTENCE_GPRMC, _GPS_SENTENCE_GPZDA}
               \/ gps._sentence_type = _GPS_SENTENCE_PUBX /\ gps._UBX_message_type = 4
    ]_vars

\* The line in progress has changed Fix State although none of its encode
\* calls returned true.
FixChangedWithoutTrue ==
  fed # <<>> /\ trues = Before.trues /\ FixOf(gps) # Before.fix

\* C3: encode returns true exactly when its character is a terminator that
\* closes a checksum field whose value equals the running parity while the
\* data-good flag is set; every other call returns false.
TrueIffValidated ==
  [][EncodeStep =>
       (ret' <=> /\ IsTerminator(Head(inbuf))
                 /\ gps._is_checksum_term
                 /\ checksum(gps') = gps'._parity
                 /\ gps._gps_data_good)]_vars

\* encode has just returned true for the second line received.
SecondLineValidated == Len(fed) = 2 /\ ret /\ trues = Before.trues + 1

\* C4: each Fix State value field holds its sentinel or a value decoded
\* from a field of a sentence that passed checksum validation.
FixValuesFromPassedSentences ==
  \A f \in ValueFields : origin.fix[f] \in {"sentinel", "passed"}

\* C5: a line whose checksum fails, or that is cut off before its checksum
\* field, leaves the 24 tracking slots and the constellation text as they
\* were.
SatelliteTableOnlyOnPass ==
  (fed # <<>> /\ inbuf = <<>> /\ (Mismatched(Last) \/ Last.kind = "cutoff")) =>
    (gps.tracked_sat_rec = Before.sats /\ gps._constellations = Before.cons)

\* C6: a freshly constructed parser fed the known RMC line returns true
\* once, at the terminator closing the checksum field, and publishes time
\* 4510300, latitude 30236640, longitude -97821453, speed 67, course 16146
\* and date 30913.
KnownRmc ==
  (Len(fed) = 1 /\ Last = KnownRmcLine) =>
    /\ trues = (IF Len(inbuf) <= 1 THEN 1 ELSE 0)
    /\ inbuf = <<>> =>
         /\ gps._time = 4510300
         /\ gps._latitude = 30236640
         /\ gps._longitude = 0 - 97821453
         /\ gps._speed = 67
         /\ gps._course = 16146
         /\ gps._date = 30913

\* The known RMC line has been ingested by a fresh parser.
KnownRmcIngested ==
  Len(fed) = 1 /\ Last = KnownRmcLine /\ inbuf = <<>> /\ trues = 1

\* C7 as stated: a freshly constructed parser fed the GGA line with the
\* checksum characters 6E returns true and publishes altitude 20690,
\* satellite count 9 and HDOP 100.
KnownGgaAsWritten ==
  (Len(fed) = 1 /\ Last = KnownGgaLine /\ inbuf = <<>>) =>
    /\ trues >= 1
    /\ gps._altitude = 20690
    /\ gps._numsats = 9
    /\ gps._hdop = 100

\* C7 amended: the parity of that GGA body is 6B; with the checksum 6B the
\* line makes encode return true and publishes altitude 20690, satellite
\* count 9 and HDOP 100, and with 6E it fails validation and leaves Fix
\* State unset.
KnownGga ==
  /\ (Len(fed) = 1 /\ Last = KnownGgaLine6B /\ inbuf = <<>>) =>
       /\ trues = 1
       /\ gps._altitude = 20690
       /\ gps._numsats = 9
       /\ gps._hdop = 100
  /\ (Len(fed) = 1 /\ Last = KnownGgaLine) =>
       /\ trues = 0
       /\ \E u \in UninitPatterns : FixOf(gps) = FixOf(TinyGPS(u))

\* The GGA line with its right checksum has been ingested by a fresh parser.
KnownGgaIngested ==
  /\ Len(fed) = 1 /\ inbuf = <<>> /\ trues = 1
  /\ Last = KnownGgaLine6B

\* C8 as stated: a valid sentence with one checksum character replaced by a
\* different character leaves Fix State as it was before the line.
ReplacedChecksumLeavesFix ==
  (fed # <<>> /\ inbuf = <<>> /\ Last.kind = "corrupted") =>
    FixOf(gps) = Before.fix

\* C8 amended: the replacement leaves Fix State as it was when the byte
\* 16 * from_hex(first) + from_hex(second) of the new characters differs
\* from the parity; a replacement that keeps that byte (C by c or by "<",
\* 7 by G) still validates.
ReplacedChecksumByValue ==
  (fed # <<>> /\ inbuf = <<>> /\ Last.kind = "corrupted") =>
    IF SentValue(Last) # Last.parity
    THEN FixOf(gps) = Before.fix /\ trues = Before.trues
    ELSE trues = Before.trues + 1

\* Both kinds of replacement have been ingested: one that changes the value
\* of the checksum field, after one that keeps it.
ReplacedChecksumSeen ==
  /\ Len(fed) = 2 /\ inbuf = <<>>
  /\ Bursts[fed[1]].kind = "corrupted" /\ Last.kind = "corrupted"
  /\ SentValue(Last) # Last.parity
  /\ Before.trues = 1 /\ trues = 1

UnrecognizedLeavesFix ==
  (fed # <<>> /\ inbuf = <<>> /\ Unrecognized(Last)) => FixOf(gps) = Before.fix

\* The values millis() returns when the caller reads an age (the counter
\* wraps to 0 every 2^32 milliseconds).
ReadTimes == 0..(MaxClock + 1)

\* The encode call of the step closes a checksum field whose value equals
\* the running parity.
CommitStep ==
  /\ EncodeStep
  /\ IsTerminator(Head(inbuf))
  /\ gps._is_checksum_term
  /\ checksum(gps') = gps'._parity

\* C11 as stated: as long as no encode call has returned true, the ages of
\* get_position, of get_datetime(date, time) and of get_datetime(year, ...)
\* all read GPS_INVALID_AGE.
NoTrueNoAge ==
  trues = 0 =>
    /\ get_position_age(gps, clock) = GPS_INVALID_AGE
    /\ get_datetime_age(gps, clock) = GPS_INVALID_AGE
    /\ get_datetime_ymd_age(gps, clock) = GPS_INVALID_AGE

\* C11 amended: as long as no encode call has returned true the age of
\* get_position reads GPS_INVALID_AGE; the two get_datetime ages stop
\* reading it, in that period, only at a call that closes a matching
\* checksum field of an RMC, PUBX-04 or ZDA sentence (the year/month/day
\* overload: of a ZDA sentence).
NoTrueNoPositionAge ==
  /\ [](trues = 0 => get_position_age(gps, clock) = GPS_INVALID_AGE)
  /\ [][(EncodeStep /\ trues' = 0) =>
          /\ ( /\ get_datetime_age(gps, clock) = GPS_INVALID_AGE
               /\ get_datetime_age(gps', clock') # GPS_INVALID_AGE ) =>
               /\ CommitStep
               /\ \/ gps._sentence_type \in {_GPS_SENTENCE_GPRMC, _GPS_SENTENCE_GPZDA}
                  \/ gps._sentence_type = _GPS_SENTENCE_PUBX /\ gps._UBX_message_type = 4
          /\ ( /\ get_datetime_ymd_age(gps, clock) = GPS_INVALID_AGE
               /\ get_datetime_ymd_age(gps', clock') # GPS_INVALID_AGE ) =>
               (CommitStep /\ gps._sentence_type = _GPS_SENTENCE_GPZDA)
       ]_vars

\* No encode call has returned true, the position age reads the sentinel
\* and both get_datetime ages read a number of milliseconds.
TimeAgeBeforeAnyTrue ==
  /\ trues = 0 /\ inbuf = <<>> /\ fed # <<>>
  /\ get_position_age(gps, clock) = GPS_INVALID_AGE
  /\ get_datetime_age(gps, clock) # GPS_INVALID_AGE
  /\ get_datetime_ymd_age(gps, clock) # GPS_INVALID_AGE

\* C12 as stated: with no encode call in between, two reads of a fix age
\* at clock values t1 < t2, neither reading the sentinel, give
\* age(t2) > age(t1).
AgeIncreases ==
  \A t1, t2 \in ReadTimes :
    t1 < t2 =>
      /\ ( /\ get_position_age(gps, t1) # GPS_INVALID_AGE
           /\ get_position_age(gps, t2) # GPS_INVALID_AGE ) =>
           ULess(get_position_age(gps, t1), get_position_age(gps, t2))
      /\ ( /\ get_datetime_age(gps, t1) # GPS_INVALID_AGE
           /\ get_datetime_age(gps, t2) # GPS_INVALID_AGE ) =>
           ULess(get_datetime_age(gps, t1), get_datetime_age(gps, t2))

\* The timestamp ts lies in (t1, t2]: the 32-bit difference wraps between
\* a read at t1 and a read at t2.
WrapsBetween(ts, t1, t2) == ULess(t1, ts) /\ ~ULess(t2, ts)

\* C12 amended: age(t2) > age(t1) when the last-fix timestamp is not in
\* (t1, t2] as 32-bit values; when it is (the millisecond counter has
\* wrapped since the fix), the difference wraps and age(t2) < age(t1).
AgeIncreasesUntilWrap ==
  \A t1, t2 \in ReadTimes :
    t1 < t2 =>
      /\ gps._last_position_fix # GPS_INVALID_FIX_TIME =>
           IF WrapsBetween(gps._last_position_fix, t1, t2)
           THEN ULess(get_position_age(gps, t2), get_position_age(gps, t1))
           ELSE ULess(get_position_age(gps, t1), get_position_age(gps, t2))
      /\ gps._last_time_fix # GPS_INVALID_FIX_TIME =>
           IF WrapsBetween(gps._last_time_fix, t1, t2)
           THEN ULess(get_datetime_age(gps, t2), get_datetime_age(gps, t1))
           ELSE ULess(get_datetime_age(gps, t1), get_datetime_age(gps, t2))

\* A position fix was published at clock 2 and no character followed: the
\* reads at 2 and 3 give the ages 0 and 1, and a read at 0, after the
\* counter has wrapped, a larger age than both.
AgesReadAfterFix ==
  /\ inbuf = <<>> /\ trues >= 1 /\ clock = 2
  /\ gps._last_position_fix = 2
  /\ get_position_age(gps, 2) = 0
  /\ get_position_age(gps, 3) = 1
  /\ ULess(get_position_age(gps, 3), get_position_age(gps, 0))

\* C13: from any reachable state encode('$') returns false and leaves the
\* field ordinal 0, the buffer offset 0, the parity 0, the sentence type
\* Unrecognized and the checksum-field and data-good flags false; every
\* staging member, every Fix State member, the tracking table and the
\* constellation text are unchanged.
DollarResetsCursor ==
  LET r == encode(gps, DOLLAR, clock, "miss")
  IN  /\ ~r.ret
      /\ r.gps._term_number = 0
      /\ r.gps._term_offset = 0
      /\ r.gps._parity = 0
      /\ r.gps._sentence_type = _GPS_SENTENCE_OTHER
      /\ ~r.gps._is_checksum_term
      /\ ~r.gps._gps_data_good
      /\ \A f \in StagingFields \cup FixFields : r.gps[f] = gps[f]
      /\ r.gps.tracked_sat_rec = gps.tracked_sat_rec
      /\ r.gps._constellations = gps._constellations

\* The '$' of a line has just been passed to encode, the line before having
\* stopped inside its checksum field with the data-good flag set.
DollarMidSentence ==
  /\ Len(fed) = 2 /\ Bursts[fed[1]].kind = "partial"
  /\ Len(inbuf) = Len(Last.bytes) - 1
  /\ gps._term_number = 0 /\ gps._parity = 0
  /\ ~gps._is_checksum_term /\ ~gps._gps_data_good /\ ~ret

\* C14: when field 0 of a sentence is closed, the sentence type becomes a
\* recognized one only if the text of the field is exactly one of the tags;
\* any other text, the empty field and a proper prefix of a tag included,
\* gives Unrecognized.
SentenceTypeOnlyForExactTag ==
  [][( /\ EncodeStep
       /\ IsTerminator(Head(inbuf))
       /\ ~gps._is_checksum_term
       /\ gps._term_number = 0
       /\ SubSeq(gps._term, 1, gps._term_offset) \notin Tags )
     => gps'._sentence_type = _GPS_SENTENCE_OTHER]_vars

\* C15: in a PUBX sentence whose submessage number is neither 0 nor 4, no
\* field after the number changes a staging member or the data-good flag,
\* and completing the sentence changes no Fix State member and never makes
\* encode return true.
OtherPubxIgnored ==
  [][( /\ EncodeStep
       /\ Head(inbuf) # DOLLAR
       /\ gps._sentence_type = _GPS_SENTENCE_PUBX
       /\ gps._term_number >= 2
       /\ gps._UBX_message_type \notin {0, 4} )
     => /\ \A f \in StagingFields : gps'[f] = gps[f]
        /\ gps'._gps_data_good = gps._gps_data_good
        /\ FixOf(gps') = FixOf(gps)
        /\ ~ret']_vars

\* C16: when a checksum-valid RMC, PUBX-04 or ZDA sentence completes while
\* the data-good flag is false, the staged time and date are promoted (RMC
\* and PUBX-04: time, date and the time timestamp; ZDA: time, day, month,
\* year and the time and date timestamps), latitude, longitude, speed,
\* course, altitude, satellite count, HDOP and the position timestamp are
\* unchanged, and encode returns false.
ClockPromotedWithoutFix ==
  [][( /\ CommitStep
       /\ ~gps._gps_data_good
       /\ \/ gps._sentence_type \in {_GPS_SENTENCE_GPRMC, _GPS_SENTENCE_GPZDA}
          \/ gps._sentence_type = _GPS_SENTENCE_PUBX /\ gps._UBX_message_type = 4 )
     => /\ ~ret'
        /\ gps'._time = gps._new_time
        /\ gps'._last_time_fix = gps._new_time_fix
        /\ IF gps._sentence_type = _GPS_SENTENCE_GPZDA
           THEN /\ gps'._day = gps._new_day
                /\ gps'._month = gps._new_month
                /\ gps'._year = gps._new_year
                /\ gps'._last_date_fix = gps._new_date_fix
           ELSE gps'._date = gps._new_date
        /\ \A f \in {"_latitude", "_longitude", "_speed", "_course", "_altitude",
                     "_numsats", "_hdop", "_last_position_fix"} :
             gps'[f] = gps[f]
    ]_vars

\* A ZDA sentence has been committed after a void RMC sentence: no encode
\* call returned true, time, date and year are published and the position
\* is still unset.
ClockWithoutFixSeen ==
  /\ Len(fed) = 2 /\ inbuf = <<>> /\ trues = 0
  /\ Last.body = Bytes(Zda)
  /\ gps._time = 16001271 /\ gps._date = 40506 /\ gps._year = 2004
  /\ gps._last_date_fix = clock
  /\ gps._latitude = GPS_INVALID_ANGLE
  /\ gps._last_position_fix = GPS_INVALID_FIX_TIME

\* C17: a validated RMC sets time, date, latitude, longitude, speed and
\* course from staging and leaves altitude, satellite count and HDOP
\* unchanged; a validated GGA sets altitude, time, latitude, longitude,
\* satellite count and HDOP and leaves speed, course and date unchanged; a
\* validated PUBX-00 sets time, latitude, longitude, speed, course,
\* altitude, satellite count and HDOP and leaves date unchanged.  The time
\* and position timestamps are set from staging with them.
ValidatedPromotesItsFields ==
  [][(EncodeStep /\ ret') =>
       LET set == CASE gps._sentence_type = _GPS_SENTENCE_GPRMC ->
                         {"_time", "_date", "_latitude", "_longitude", "_speed",
                          "_course"}
                    [] gps._sentence_type = _GPS_SENTENCE_GPGGA ->
                         {"_altitude", "_time", "_latitude", "_longitude",
                          "_numsats", "_hdop"}
                    [] OTHER ->
                         {"_time", "_latitude", "_longitude", "_speed", "_course",
                          "_altitude", "_numsats", "_hdop"}
       IN  ( \/ gps._sentence_type \in {_GPS_SENTENCE_GPRMC, _GPS_SENTENCE_GPGGA}
             \/ gps._sentence_type = _GPS_SENTENCE_PUBX /\ gps._UBX_message_type = 0 )
           => /\ \A f \in FixFields \ Timestamps :
                   gps'[f] = IF f \in set THEN gps[StagedFor[f]] ELSE gps[f]
              /\ gps'._last_time_fix = gps._new_time_fix
              /\ gps'._last_position_fix = gps._new_position_fix
              /\ gps'._last_date_fix = gps._last_date_fix
    ]_vars

\* A PUBX-00 sentence has just been validated after a GGA sentence had
\* published another position: the date is still unset.
Pubx00AfterGga ==
  /\ Len(fed) = 2 /\ ret /\ Before.trues = 1
  /\ Bursts[fed[1]] = KnownGgaLine6B /\ Last.body = Bytes(Pubx00)
  /\ Before.fix._latitude = 30236642
  /\ gps._latitude = 47285220 /\ gps._altitude = 54658 /\ gps._hdop = 92
  /\ gps._date = GPS_INVALID_DATE

\* C18: an encode call changes a Fix State member only if its character
\* closes a checksum field whose value equals the running parity; an
\* ordinary character, a '$' or a terminator closing another field leaves
\* every Fix State member unchanged, whatever the dispatcher stages.
FixChangesOnlyAtCommit ==
  [][(EncodeStep /\ ~CommitStep) => FixOf(gps') = FixOf(gps)]_vars

\* In the middle of a line the dispatcher has staged a time other than the
\* published one, and Fix State is what it was when the line began.
StagedNotPublished ==
  /\ fed # <<>> /\ inbuf # <<>> /\ Before.trues = 1
  /\ origin.stage._new_time = "current"
  /\ gps._new_time # gps._time
  /\ FixOf(gps) = Before.fix

\* C19: every store of a GSV signal-strength field goes to a slot inside
\* the 24-slot table and inside the constellation's half: slots 0..11 in a
\* GPGSV sentence, slots 12..23 in a GLGSV sentence, whatever the
\* message-number field held.
GsvWritesInPartition ==
  [][( /\ EncodeStep
       /\ IsTerminator(Head(inbuf))
       /\ TermRule(Closed(gps, Head(inbuf))) = "gsv_strength" )
     => StrengthIndex(Closed(gps, Head(inbuf))) \in
          (IF gps._sentence_type = _GPS_SENTENCE_GPGSV THEN 0..11 ELSE 12..23)
    ]_vars

\* C20: when field 2 of a GPGSV (GLGSV) sentence carries the message
\* number 1, the 12 slots of that constellation, 0..11 (12..23), are zero
\* right after the encode call that closes the field, before any record of
\* the sequence is stored, and the 12 slots of the other constellation are
\* as they were.
SequenceStartResetsHalf ==
  [][( /\ EncodeStep
       /\ IsTerminator(Head(inbuf))
       /\ ~gps._is_checksum_term
       /\ gps._term_number = 2
       /\ gps._sentence_type \in {_GPS_SENTENCE_GPGSV, _GPS_SENTENCE_GLGSV}
       /\ SubSeq(gps._term, 1, gps._term_offset) = <<ZERO + 1>> )
     => \A x \in 0..(NumTracked - 1) :
          gps'.tracked_sat_rec[x + 1] =
            IF (x < 12) = (gps._sentence_type = _GPS_SENTENCE_GPGSV)
            THEN 0 ELSE gps.tracked_sat_rec[x + 1]
    ]_vars

\* Field 2 of a GPGSV sentence carrying 1 has just been closed after a
\* GLGSV sentence: slots 0..11, not all zero before the line, are zero and
\* the GLONASS records stand.
GpsHalfJustReset ==
  /\ Len(fed) = 2 /\ Last.body = Bytes(GpGsv)
  /\ gps._sentence_type = _GPS_SENTENCE_GPGSV /\ gps._term_number = 3
  /\ gps._term_offset = 0
  /\ \E x \in 1..12 : Before.sats[x] # 0
  /\ \A x \in 1..12 : gps.tracked_sat_rec[x] = 0
  /\ \E x \in 13..24 : gps.tracked_sat_rec[x] # 0
  /\ \A x \in 13..24 : gps.tracked_sat_rec[x] = Before.sats[x]

\* C21: whenever a checksum field is compared, the running parity is the
\* exclusive-or of the characters ingested after the last '$' and before
\* the '*', commas included, '$' and '*' excluded (every line of the menu
\* holds one '$', its first character, and its body is what stands before
\* its first '*').
ParityIsBodyXor ==
  [][( /\ EncodeStep
       /\ IsTerminator(Head(inbuf))
       /\ gps._is_checksum_term )
     => gps'._parity = Last.parity]_vars

\* The number of characters of the line received so far that encode has
\* been given, and how many of the last n of them belong to the field still
\* open.
Given == Len(Last.bytes) - Len(inbuf)

RECURSIVE OpenField(_, _)
OpenField(bytes, n) ==
  IF n = 0 \/ IsTerminator(bytes[n]) \/ bytes[n] = DOLLAR THEN 0
  ELSE 1 + OpenField(bytes, n - 1)

\* C22: the buffer offset never exceeds 14 and the terminator is written
\* inside the 15-byte buffer; of a field longer than 14 characters the
\* buffer holds exactly the first 14; and every character of a field, the
\* dropped ones included, is folded into the running parity unless the
\* field is the checksum field.
TermBufferBounded ==
  /\ [](/\ gps._term_offset <= SizeofTerm - 1
        /\ (fed # <<>> /\ Given >= 1) =>
             LET k == OpenField(Last.bytes, Given)
                 m == IF k < SizeofTerm - 1 THEN k ELSE SizeofTerm - 1
             IN  /\ gps._term_offset = m
                 /\ \A i \in 1..m : gps._term[i] = Last.bytes[Given - k + i])
  /\ [][EncodeStep =>
          IF IsTerminator(Head(inbuf))
          THEN /\ gps._term_offset + 1 \in DOMAIN gps._term
               /\ gps'._term = [gps._term EXCEPT ![gps._term_offset + 1] = NUL]
          ELSE Head(inbuf) # DOLLAR =>
                 gps'._parity = IF gps._is_checksum_term THEN gps._parity
                                ELSE BitXor(gps._parity, Head(inbuf))
       ]_vars

\* Seventeen characters of one field have been given to encode: the buffer
\* is full with the first 14 and the parity covers all the characters of
\* the line after its '$'.
LongFieldDropped ==
  /\ fed # <<>> /\ Given > 17
  /\ OpenField(Last.bytes, Given) = 17
  /\ gps._term_offset = 14
  /\ gps._parity = ParityBetween(Last.bytes, 2, Given)


\* The ordinal of the field the next character belongs to: the number of
\* terminators among the characters of the line given to encode so far.
Ordinal == Cardinality({i \in 1..Given : IsTerminator(Last.bytes[i])})

\* The case label written for field k of the sentence type object g is in:
\* the tag at 0, the message number of a PUBX sentence at 1, and the label
\* COMBINE(type, k) of a type that has labels, k being below the 32 the
\* macro leaves room for.
DocumentedRule(g, k) ==
  IF k = 0 THEN "sentence_type"
  ELSE IF g._sentence_type = _GPS_SENTENCE_PUBX /\ k = 1 THEN "ubx_message"
  ELSE IF k >= 32 \/ g._sentence_type = _GPS_SENTENCE_OTHER THEN "none"
  ELSE IF g._sentence_type = _GPS_SENTENCE_PUBX
    THEN IF g._UBX_message_type \in {0, 4}
         THEN SwitchCase(COMBINE(UBX_MESSAGE(g._UBX_message_type), k))
         ELSE "none"
  ELSE SwitchCase(COMBINE(g._sentence_type, k))

\* C23: whenever a field other than the checksum field is closed, the
\* handling selected for it is the one written for its ordinal in the
\* sentence's own type, or none.
RuleOfOwnTypeOnly ==
  [][( /\ EncodeStep
       /\ IsTerminator(Head(inbuf))
       /\ ~gps._is_checksum_term )
     => TermRule(Closed(gps, Head(inbuf)))
          \in {"none", DocumentedRule(gps, Ordinal)}]_vars


\* What the validity field of a line says once n of its fields are closed,
\* the parser g having classified the sentence: field 2 of an RMC sentence
\* begins with 'A', field 6 of a GGA sentence is a digit from 1 to 9, field
\* 8 of a PUBX sentence of message number 0 begins with 'G', or with 'D'
\* not followed by 'R'.
ValidityGood(g, body, n) ==
  LET f2 == AsTerm(Field(body, 2))
      f6 == Field(body, 6)
      f8 == AsTerm(Field(body, 8))
  IN  IF g._sentence_type = _GPS_SENTENCE_GPRMC
        THEN n > 2 /\ f2[1] = UPPER_A
      ELSE IF g._sentence_type = _GPS_SENTENCE_GPGGA
        THEN n > 6 /\ Len(f6) = 1 /\ f6[1] \in (ZERO + 1)..(ZERO + 9)
      ELSE IF g._sentence_type = _GPS_SENTENCE_PUBX /\ n > 1
              /\ g._UBX_message_type = 0
        THEN n > 8 /\ (f8[1] = UPPER_G \/ (f8[1] = UPPER_D /\ f8[2] # UPPER_R))
      ELSE FALSE

\* C24: at every point of a sentence the data-good flag is true exactly
\* when the validity field of its type has been closed and says the data is
\* good; in every other case it is false.
DataGoodIffValidityField ==
  (fed # <<>> /\ Given >= 1) =>
    (gps._gps_data_good <=> ValidityGood(gps, Last.body, Ordinal))


\* C25: whatever the parser received before a line, each encode call of
\* the line returns what it returns to a parser that received nothing
\* before, and when the line is validated and every field its type decodes
\* is non-empty, the published values its type promotes are the same.
HistoryIndependent ==
  /\ (fed # <<>> /\ Given >= 1) => (ret <=> twin.ret)
  /\ (fed # <<>> /\ inbuf = <<>> /\ trues > Before.trues /\ Populated(Last)) =>
       \A f \in Promoted(gps) \ Timestamps : gps[f] = twin.gps[f]

\* A populated sentence has been validated by a parser that an unfinished
\* sentence had left in the middle of a checksum field.
ValidatedAfterPartial ==
  /\ Len(fed) = 2 /\ inbuf = <<>>
  /\ Bursts[fed[1]].kind = "partial"
  /\ trues = Before.trues + 1
  /\ Populated(Last)
  /\ gps._latitude # Before.fix._latitude


\* C26: between one '$' and the next, encode returns true at most once:
\* every line begins with its only '$', so the calls made for a line add at
\* most one to the number of calls that returned true.
AtMostOneTruePerSentence ==
  fed # <<>> => trues <= Before.trues + 1

====
